---- MODULE Spec2Model ----
(***************************************************************************)
(* Model of eslym/go-trustedproxy: the X-Forwarded-For extractor, the two  *)
(* IPExtractor implementations (CIDRWhitelist, OffsetIPExtractor), the     *)
(* middleware entry points and the forwardedRequest view.                  *)
(*                                                                         *)
(* Text is modelled as a sequence of atoms: an atom is the canonical text  *)
(* of one IP address, a comma, a space, or a run of other characters.      *)
(* A net.IP is an index into AddrText, or Nil for the nil slice.           *)
(***************************************************************************)
EXTENDS Integers, Sequences, FiniteSets, TLC

VARIABLES
    args,     \* inputs of the operation under study (receiver, parameters)
    ret,      \* outcome of the last call
    h,        \* the HTTPHandler: Extractor, ErrorHandler
    r,        \* the raw *http.Request the view embeds
    fr,       \* the forwardedRequest fields
    pc,       \* position of the middleware for the request
    handled,  \* error-handler invocations, in order
    first     \* first value each accessor of the view returned

vars == <<args, ret, h, r, fr, pc, handled, first>>

\* ------------------------------------------------------------------ bounds

MaxChain == 3
MaxOffset == 2
MaxText == 4
MaxShortText == 2
MaxViewChain == 1

\* --------------------------------------------------------------- addresses

Nil == 0

AddrText == <<"10.0.0.1", "10.0.0.2", "1.2.3.4">>

Addr == 1..Len(AddrText)

\* *net.IPNet values, each as the set of addresses it contains:
\* 10.0.0.0/8, 10.0.0.1/32, 1.2.3.4/32
Nets == {{1, 2}, {1}, {3}}

RECURSIVE SeqsUpTo(_, _)
SeqsUpTo(S, n) ==
    IF n = 0 THEN {<<>>}
    ELSE LET shorter == SeqsUpTo(S, n - 1)
         IN  shorter \cup {Append(s, x) : s \in {t \in shorter : Len(t) = n - 1}, x \in S}

Chains == SeqsUpTo(Addr, MaxChain)

\* ----------------------------------------------------------------- text

Comma == ","
Space == " "
Junk == "junk"

TextAtoms == {AddrText[a] : a \in Addr} \cup {Comma, Space, Junk}

\* net.IP.String
IPString(ip) == IF ip = Nil THEN "<nil>" ELSE AddrText[ip]

\* net.ParseIP: the text must be exactly one address, nothing around it
ParseIP(val) ==
    IF Len(val) = 1 /\ \E a \in Addr : AddrText[a] = val[1]
    THEN CHOOSE a \in Addr : AddrText[a] = val[1]
    ELSE Nil

\* strings.Split(s, ","): the pieces between the commas, empty ones included
RECURSIVE SplitFrom(_, _, _, _)
SplitFrom(s, i, cur, out) ==
    IF i > Len(s) THEN Append(out, cur)
    ELSE IF s[i] = Comma THEN SplitFrom(s, i + 1, <<>>, Append(out, cur))
    ELSE SplitFrom(s, i + 1, Append(cur, s[i]), out)

Split(s) == SplitFrom(s, 1, <<>>, <<>>)

\* strings.Join(elems, sep)
RECURSIVE Join(_, _)
Join(elems, sep) ==
    IF Len(elems) = 0 THEN <<>>
    ELSE IF Len(elems) = 1 THEN <<elems[1]>>
    ELSE <<elems[1]>> \o sep \o Join(Tail(elems), sep)

\* the inner loop of ExtractForwardedForIPs over one header value
RECURSIVE ParseTokens(_, _)
ParseTokens(toks, res) ==
    IF Len(toks) = 0 THEN res
    ELSE LET ip == ParseIP(toks[1])
         IN  ParseTokens(Tail(toks), IF ip = Nil THEN res ELSE Append(res, ip))

RECURSIVE ExtractFrom(_, _)
ExtractFrom(headers, res) ==
    IF Len(headers) = 0 THEN res
    ELSE ExtractFrom(Tail(headers), ParseTokens(Split(headers[1]), res))

\* headers: the values of X-Forwarded-For, in order of occurrence
ExtractForwardedForIPs(headers) == ExtractFrom(headers, <<>>)

\* ---------------------------------------------------------------- resolvers

IPNetContains(cidr, ip) == ip \in cidr

Contains(whitelist, ip) == \E cidr \in whitelist : IPNetContains(cidr, ip)

popLeft(s) ==
    IF Len(s) = 0 THEN <<Nil, s>>
    ELSE <<s[1], Tail(s)>>

pop(s) ==
    IF Len(s) = 0 THEN <<Nil, s>>
    ELSE <<s[Len(s)], SubSeq(s, 1, Len(s) - 1)>>

Ok(proxy, remote, forwarded) ==
    [kind |-> "ok", proxy |-> proxy, remote |-> remote, forwarded |-> forwarded]

ErrMisconfigured == [kind |-> "err", msg |-> "mis-configured proxy chain"]

\* a run-time panic: index out of range
Panic == [kind |-> "panic"]

RECURSIVE CIDRLoop(_, _, _, _)
CIDRLoop(whitelist, proxy, remote, forwarded) ==
    IF Len(forwarded) > 0 /\ Contains(whitelist, remote)
    THEN LET p == pop(forwarded) IN CIDRLoop(whitelist, remote, p[1], p[2])
    ELSE Ok(proxy, remote, forwarded)

CIDRResolve(whitelist, remote, forwarded) == CIDRLoop(whitelist, Nil, remote, forwarded)

OffsetTooShort(size, o) == size <= o

OffsetResolveSwapped(o, remote, forwarded) ==
    LET ips  == Append(forwarded, remote)
        size == Len(ips)
    IN  IF OffsetTooShort(size, o) THEN ErrMisconfigured
        ELSE IF size - o - 2 < 0 THEN Panic
        ELSE Ok(ips[size - o - 1], ips[size - o], SubSeq(ips, 1, size - o - 2))

OffsetResolveKeepsRemote(o, remote, forwarded) ==
    LET ips  == Append(forwarded, remote)
        size == Len(ips)
    IN  IF OffsetTooShort(size, o) THEN ErrMisconfigured
        ELSE IF size - o - 2 < 0 THEN Panic
        ELSE Ok(ips[size - o], ips[size - o - 1], SubSeq(ips, 1, size - o - 1))

\* ips is 0-indexed in the source: ips[k] is ips[k + 1] here
OffsetResolve(o, remote, forwarded) ==
    LET ips  == Append(forwarded, remote)
        size == Len(ips)
    IN  IF OffsetTooShort(size, o) THEN ErrMisconfigured
        ELSE IF size - o - 2 < 0 THEN Panic
        ELSE Ok(ips[size - o], ips[size - o - 1], SubSeq(ips, 1, size - o - 2))

Resolve(ext, remote, forwarded) ==
    IF ext.kind = "cidr" THEN CIDRResolve(ext.whitelist, remote, forwarded)
    ELSE OffsetResolve(ext.o, remote, forwarded)

Extractors ==
    {[kind |-> "cidr", whitelist |-> w, o |-> 0] : w \in SUBSET Nets}
    \cup {[kind |-> "offset", whitelist |-> {}, o |-> n] : n \in 0..MaxOffset}

\* ------------------------------------------------ idle values of the state

NoCall == [kind |-> "none"]
NoArgs == [op |-> "none"]
NoHandler == [Extractor |-> [kind |-> "cidr", whitelist |-> {}, o |-> 0],
              ErrorHandler |-> "DefaultErrorHandler", entry |-> "none"]
\* URL holds what the server parsed from the request line: the path alone
NoRequest == [RemoteAddr |-> <<>>, Host |-> "", TLS |-> FALSE,
              URL |-> [Path |-> "/", Host |-> "", Scheme |-> <<>>],
              XFF |-> <<>>, XFH |-> <<>>, XFP |-> <<>>, XRI |-> <<>>]
\* the nil *url.URL and the nil *http.Request
NilURL == [nil |-> TRUE]
NilRequest == [nil |-> TRUE]
\* &forwardedRequest{}: every field at its zero value
NoView == [proxyIP |-> Nil, trustedHost |-> "", trustedProto |-> <<>>,
           trustedRemoteAddr |-> Nil, trustedForwardedFor |-> <<>>,
           trustedURL |-> NilURL, trustedRequest |-> NilRequest]
NoFirst == [a \in {} |-> 0]

\* ------------------------------------------------------ the forwardedRequest

\* http.Header.Get: the first value, or the empty string
HeaderGet(values, empty) == IF Len(values) = 0 THEN empty ELSE values[1]

LowerChar(c) ==
    CASE c = "H" -> "h" [] c = "T" -> "t" [] c = "P" -> "p"
      [] c = "S" -> "s" [] c = "W" -> "w" [] c = "F" -> "f"
      [] OTHER -> c

\* strings.ToLower
ToLower(s) == [i \in 1..Len(s) |-> LowerChar(s[i])]

\* each operation returns the view after the call (f) and the value (v)

GetTrustedHost(f, req) ==
    IF f.trustedHost # "" THEN [f |-> f, v |-> f.trustedHost]
    ELSE IF f.proxyIP = Nil
    THEN [f |-> [f EXCEPT !.trustedHost = req.Host], v |-> req.Host]
    ELSE LET xHost == HeaderGet(req.XFH, "")
         IN  IF xHost # ""
             THEN [f |-> [f EXCEPT !.trustedHost = xHost], v |-> xHost]
             ELSE [f |-> [f EXCEPT !.trustedHost = req.Host], v |-> req.Host]

\* protocol names, as text: one atom per character
HTTP == <<"h", "t", "t", "p">>
HTTPS == <<"h", "t", "t", "p", "s">>
WS == <<"w", "s">>
WSS == <<"w", "s", "s">>

TLSProto(req) == IF req.TLS THEN HTTPS ELSE HTTP

ProtoOfCaseSensitive(xProto, req) ==
    IF xProto \in {HTTP, WS} THEN HTTP
    ELSE IF xProto \in {HTTPS, WSS} THEN HTTPS
    ELSE TLSProto(req)

ProtoOf(xProto, req) ==
    IF ToLower(xProto) \in {HTTP, WS} THEN HTTP
    ELSE IF ToLower(xProto) \in {HTTPS, WSS} THEN HTTPS
    ELSE TLSProto(req)

GetTrustedProto(f, req) ==
    IF f.trustedProto # <<>> THEN [f |-> f, v |-> f.trustedProto]
    ELSE LET proto ==
                 IF f.proxyIP = Nil THEN TLSProto(req)
                 ELSE ProtoOf(HeaderGet(req.XFP, <<>>), req)
         IN  [f |-> [f EXCEPT !.trustedProto = proto], v |-> proto]

GetTrustedURL(f, req) ==
    IF f.trustedURL # NilURL THEN [f |-> f, v |-> f.trustedURL]
    ELSE LET a == GetTrustedHost(f, req)
             b == GetTrustedProto(a.f, req)
             u == [req.URL EXCEPT !.Host = a.v, !.Scheme = b.v]
         IN  [f |-> [b.f EXCEPT !.trustedURL = u], v |-> u]

GetTrustedRequest(f, req) ==
    IF f.trustedRequest # NilRequest THEN [f |-> f, v |-> f.trustedRequest]
    ELSE LET a == GetTrustedHost(f, req)
             b == GetTrustedURL(a.f, req)
             t == [req EXCEPT
                     !.Host = a.v,
                     !.URL = b.v,
                     !.RemoteAddr = <<IPString(f.trustedRemoteAddr)>>,
                     !.XFF = IF Len(f.trustedForwardedFor) > 0
                             THEN << <<IPString(f.trustedForwardedFor[1])>> >>
                             ELSE <<>>,
                     !.XFH = IF Len(f.trustedForwardedFor) > 0 THEN @ ELSE <<>>,
                     !.XFP = IF Len(f.trustedForwardedFor) > 0 THEN @ ELSE <<>>]
         IN  [f |-> [b.f EXCEPT !.trustedRequest = t], v |-> t]

\* []string of the addresses, each through net.IP.String
RECURSIVE IPStrings(_)
IPStrings(ips) ==
    IF Len(ips) = 0 THEN <<>> ELSE <<IPString(ips[1])>> \o IPStrings(Tail(ips))

ForwardedIPsNeverStripped(f, stripForwardedIPs) ==
    IPStrings(f.trustedForwardedFor) \o <<IPString(f.trustedRemoteAddr)>>

ForwardedIPs(f, stripForwardedIPs) ==
    (IF ~stripForwardedIPs THEN IPStrings(f.trustedForwardedFor) ELSE <<>>)
    \o <<IPString(f.trustedRemoteAddr)>>

BuildRequestForForward(f, req, stripForwardedIPs) ==
    LET a == GetTrustedHost(f, req)
        b == GetTrustedURL(a.f, req)
        c == GetTrustedHost(b.f, req)
        d == GetTrustedProto(c.f, req)
        out == [req EXCEPT
                  !.Host = a.v,
                  !.URL = b.v,
                  !.XRI = <<>>,
                  !.XFF = <<Join(ForwardedIPs(f, stripForwardedIPs), <<Comma, Space>>)>>,
                  !.XFH = <<c.v>>,
                  !.XFP = <<d.v>>]
    IN  [f |-> d.f, v |-> out]

\* ------------------------------------------------------------ the middleware

Colon == ":"
Port == "8080"

\* net.ResolveTCPAddr("tcp", addr) on literal addresses: host:port with the
\* host an IP address, or :port (an empty host, which gives the nil IP)
ResolveTCPAddr(addr) ==
    IF Len(addr) = 3 /\ addr[2] = Colon /\ addr[3] = Port /\ ParseIP(<<addr[1]>>) # Nil
    THEN [err |-> FALSE, IP |-> ParseIP(<<addr[1]>>)]
    ELSE IF Len(addr) = 2 /\ addr[1] = Colon /\ addr[2] = Port
    THEN [err |-> FALSE, IP |-> Nil]
    ELSE [err |-> TRUE, IP |-> Nil]

ErrTypeUnknownRemoteAddr == 0
ErrTypeIPExtractorError == 1

\* the handler SetTrustedProxyContext reports an error to
ErrorHandlerUsed(hh) == "DefaultErrorHandler"

WithPartition(f, res) ==
    [f EXCEPT !.proxyIP = res.proxy,
              !.trustedRemoteAddr = res.remote,
              !.trustedForwardedFor = res.forwarded]

\* HTTPHandler.SetTrustedProxyContext up to the call of next: the position
\* reached, the view, the resolver's outcome (NoCall when it was not called)
\* and the error-handler call if one was made
SetTrustedProxyContext(hh, req) ==
    LET ips   == ExtractForwardedForIPs(req.XFF)
        raddr == ResolveTCPAddr(req.RemoteAddr)
        res   == Resolve(hh.Extractor, raddr.IP, ips)
    IN  IF raddr.err
        THEN [pc |-> "failed", f |-> NoView, res |-> NoCall,
              calls |-> <<[handler |-> ErrorHandlerUsed(hh), t |-> ErrTypeUnknownRemoteAddr]>>]
        ELSE IF res.kind = "err"
        THEN [pc |-> "failed", f |-> NoView, res |-> res,
              calls |-> <<[handler |-> ErrorHandlerUsed(hh), t |-> ErrTypeIPExtractorError]>>]
        ELSE IF res.kind = "panic"
        THEN [pc |-> "panicked", f |-> NoView, res |-> res, calls |-> <<>>]
        ELSE [pc |-> "next", f |-> WithPartition(NoView, res), res |-> res, calls |-> <<>>]

\* the handler WithTrustedProxyContext of trustedproxy.go returns
LegacyTrustedProxyContext(hh, req) ==
    LET ips == ExtractForwardedForIPs(req.XFF)
        res == Resolve(hh.Extractor, ParseIP(req.RemoteAddr), ips)
    IN  IF res.kind = "err"
        THEN [pc |-> "failed", f |-> NoView, res |-> res,
              calls |-> <<[handler |-> "http.Error", t |-> ErrTypeIPExtractorError]>>]
        ELSE IF res.kind = "panic"
        THEN [pc |-> "panicked", f |-> NoView, res |-> res, calls |-> <<>>]
        ELSE [pc |-> "next", f |-> WithPartition(NoView, res), res |-> res, calls |-> <<>>]

\* ------------------------------------------ specification of the middleware

HTTPHandlerEntries == {"HTTPHandler.ServeHTTP", "HTTPHandler.SetTrustedProxyContext"}
LegacyEntries == {"WithTrustedRequest", "WithTrustedProxyContext"}

RemoteAddrs ==
    {<<AddrText[a], Colon, Port>> : a \in Addr}
    \cup {<<AddrText[a]>> : a \in Addr}
    \cup {<<Colon, Port>>, <<Junk>>}

ChainText(c, sep) == Join(IPStrings(c), sep)

\* X-Forwarded-For as proxies write it: one value, "a,b" or "a, b"
ForwardedForHeaders ==
    {<<>>} \cup {<<ChainText(c, sep)>> :
                    c \in Chains \ {<<>>}, sep \in {<<Comma>>, <<Comma, Space>>}}

ServedRequest(addr, xff) ==
    [NoRequest EXCEPT !.RemoteAddr = addr, !.XFF = xff, !.Host = "a.example"]

InitServe ==
    /\ h \in {[Extractor |-> e, ErrorHandler |-> eh, entry |-> en] :
                 e \in Extractors,
                 eh \in {"DefaultErrorHandler", "custom"},
                 en \in HTTPHandlerEntries \cup LegacyEntries}
    /\ (h.entry \in LegacyEntries => h.ErrorHandler = "DefaultErrorHandler")
    /\ r \in {ServedRequest(addr, xff) : addr \in RemoteAddrs, xff \in ForwardedForHeaders}
    /\ fr = NoView
    /\ pc = "start" /\ handled = <<>>
    /\ args = NoArgs /\ ret = NoCall /\ first = NoFirst

\* HTTPHandler.SetTrustedProxyContext, next the caller's handler
ServeSetTrustedProxyContext ==
    /\ pc = "start" /\ h.entry = "HTTPHandler.SetTrustedProxyContext"
    /\ LET o == SetTrustedProxyContext(h, r)
       IN  /\ pc' = o.pc /\ fr' = o.f /\ handled' = handled \o o.calls
           /\ ret' = [kind |-> "served", res |-> o.res,
                      next |-> IF o.pc = "next" THEN r ELSE NilRequest]
    /\ UNCHANGED <<args, h, r, first>>

\* HTTPHandler.ServeHTTP: next is h.Next behind fr.GetTrustedRequest()
ServeHTTP ==
    /\ pc = "start" /\ h.entry = "HTTPHandler.ServeHTTP"
    /\ LET o == SetTrustedProxyContext(h, r)
           t == GetTrustedRequest(o.f, r)
       IN  /\ pc' = o.pc /\ handled' = handled \o o.calls
           /\ fr' = IF o.pc = "next" THEN t.f ELSE o.f
           /\ ret' = [kind |-> "served", res |-> o.res,
                      next |-> IF o.pc = "next" THEN t.v ELSE NilRequest]
    /\ UNCHANGED <<args, h, r, first>>

\* WithTrustedProxyContext of trustedproxy.go
ServeLegacyTrustedProxyContext ==
    /\ pc = "start" /\ h.entry = "WithTrustedProxyContext"
    /\ LET o == LegacyTrustedProxyContext(h, r)
       IN  /\ pc' = o.pc /\ fr' = o.f /\ handled' = handled \o o.calls
           /\ ret' = [kind |-> "served", res |-> o.res,
                      next |-> IF o.pc = "next" THEN r ELSE NilRequest]
    /\ UNCHANGED <<args, h, r, first>>

\* WithTrustedRequest of trustedproxy.go
ServeLegacyTrustedRequest ==
    /\ pc = "start" /\ h.entry = "WithTrustedRequest"
    /\ LET o == LegacyTrustedProxyContext(h, r)
           t == GetTrustedRequest(o.f, r)
       IN  /\ pc' = o.pc /\ handled' = handled \o o.calls
           /\ fr' = IF o.pc = "next" THEN t.f ELSE o.f
           /\ ret' = [kind |-> "served", res |-> o.res,
                      next |-> IF o.pc = "next" THEN t.v ELSE NilRequest]
    /\ UNCHANGED <<args, h, r, first>>

NextServe ==
    \/ ServeSetTrustedProxyContext
    \/ ServeHTTP
    \/ ServeLegacyTrustedProxyContext
    \/ ServeLegacyTrustedRequest

SpecServe == InitServe /\ [][NextServe]_vars

\* ------------------------------------------------- claims on the middleware

\* the socket peer address reads as host:port
IsHostPort(addr) ==
    \/ Len(addr) = 3 /\ addr[2] = Colon
    \/ Len(addr) = 2 /\ addr[1] = Colon

\* C6: a resolution error in HTTPHandler.SetTrustedProxyContext is passed
\* exactly once to the ErrorHandler configured on that HTTPHandler.
C6_ConfiguredHandlerCalledOnce ==
    (pc = "failed" /\ h.entry \in HTTPHandlerEntries) =>
        /\ Len(handled) = 1
        /\ handled[1].handler = h.ErrorHandler

\* C7: when the socket peer address does not parse as host:port or the resolver
\* returns an error, the next handler is never invoked; when it is invoked, the
\* view's proxy, trusted remote and residual chain are those of a successful
\* resolution.
C7_NextOnlyAfterResolution ==
    /\ (pc # "start" /\ (~IsHostPort(r.RemoteAddr) \/ ret.res.kind = "err"))
           => (pc # "next" /\ ret.next = NilRequest)
    /\ pc = "next" =>
           /\ ret.res.kind = "ok"
           /\ fr.proxyIP = ret.res.proxy
           /\ fr.trustedRemoteAddr = ret.res.remote
           /\ fr.trustedForwardedFor = ret.res.forwarded

\* ------------------------------------------------ specifications of the view

Hosts == {"", "a.example"}
ForwardedHosts == {<<>>, <<"p.example">>}

\* the view and its request when SetTrustedProxyContext calls next
Served(e, req) ==
    LET o == SetTrustedProxyContext(
                 [Extractor |-> e, ErrorHandler |-> "DefaultErrorHandler",
                  entry |-> "HTTPHandler.SetTrustedProxyContext"], req)
    IN  [ok |-> o.pc = "next", f |-> o.f]

ViewRequests(peers, chains, hosts, xfhs, xfps, xris) ==
    {[NoRequest EXCEPT !.RemoteAddr = <<AddrText[a], Colon, Port>>,
                       !.XFF = IF c = <<>> THEN <<>> ELSE <<ChainText(c, <<Comma>>)>>,
                       !.Host = hst, !.XFH = xfh, !.XFP = xfp, !.TLS = tls, !.XRI = xri] :
        a \in peers, c \in chains, hst \in hosts, xfh \in xfhs, xfp \in xfps,
        tls \in BOOLEAN, xri \in xris}

\* the handler is out of the picture once next runs: h is left idle
InitViewOver(requests) ==
    /\ h = NoHandler
    /\ r \in requests
    /\ \E e \in Extractors : Served(e, r).ok /\ fr = Served(e, r).f
    /\ pc = "next" /\ handled = <<>>
    /\ args = NoArgs /\ ret = NoCall /\ first = NoFirst

\* the value an accessor returned first
Noted(op, v) == IF op \in DOMAIN first THEN first ELSE first @@ (op :> v)

Returned(op, o) ==
    /\ fr' = o.f
    /\ ret' = [kind |-> "ok", op |-> op, v |-> o.v]
    /\ first' = Noted(op, o.v)
    /\ UNCHANGED <<args, h, r, pc, handled>>

CallGetTrustedHost == pc = "next" /\ Returned("GetTrustedHost", GetTrustedHost(fr, r))

CallGetTrustedProto == pc = "next" /\ Returned("GetTrustedProto", GetTrustedProto(fr, r))

CallGetTrustedURL == pc = "next" /\ Returned("GetTrustedURL", GetTrustedURL(fr, r))

CallGetTrustedRequest == pc = "next" /\ Returned("GetTrustedRequest", GetTrustedRequest(fr, r))

Mutated(req) ==
    /\ req # r
    /\ r' = req
    /\ UNCHANGED <<args, ret, h, fr, pc, handled, first>>

SetHost == pc = "next" /\ \E v \in Hosts : Mutated([r EXCEPT !.Host = v])

SetForwardedHost == pc = "next" /\ \E v \in ForwardedHosts : Mutated([r EXCEPT !.XFH = v])

SetForwardedProto == pc = "next" /\ \E v \in {<<>>, <<WSS>>} : Mutated([r EXCEPT !.XFP = v])

SetTLS == pc = "next" /\ \E v \in BOOLEAN : Mutated([r EXCEPT !.TLS = v])

InitView ==
    InitViewOver(ViewRequests({1}, SeqsUpTo({1, 3}, MaxViewChain), Hosts,
                              ForwardedHosts, {<<>>, <<WSS>>}, {<<>>}))

NextView ==
    \/ CallGetTrustedHost
    \/ CallGetTrustedProto
    \/ CallGetTrustedURL
    \/ CallGetTrustedRequest
    \/ SetHost
    \/ SetForwardedHost
    \/ SetForwardedProto
    \/ SetTLS

SpecView == InitView /\ [][NextView]_vars

\* C5: every call of an accessor of one view returns the value its first call
\* returned, whatever was called or changed on the raw request in between, the
\* empty first trusted host included.
C5_AccessorsMemoized ==
    (ret.kind = "ok" /\ ret.op \in DOMAIN first) => ret.v = first[ret.op]

\* -------------------------------------- specification of the forward builder

InitForward ==
    InitViewOver(ViewRequests(Addr, Chains, Hosts, ForwardedHosts, {<<>>, <<WSS>>},
                              {<<>>, << <<AddrText[2]>> >>}))

CallBuildRequestForForward ==
    /\ pc = "next" /\ ret = NoCall
    /\ \E stripForwardedIPs \in BOOLEAN :
           LET o == BuildRequestForForward(fr, r, stripForwardedIPs)
           IN  /\ fr' = o.f
               /\ ret' = [kind |-> "ok", op |-> "BuildRequestForForward",
                          strip |-> stripForwardedIPs, v |-> o.v]
    /\ UNCHANGED <<args, h, r, pc, handled, first>>

NextForward == CallBuildRequestForForward

SpecForward == InitForward /\ [][NextForward]_vars

\* the addresses' texts with ", " between them
CommaSpaced(ips) ==
    LET n == Len(ips)
    IN  [k \in 1..(IF n = 0 THEN 0 ELSE 3 * n - 2) |->
            IF k % 3 = 1 THEN AddrText[ips[(k + 2) \div 3]]
            ELSE IF k % 3 = 2 THEN "," ELSE " "]

\* trusted host and protocol of section 4.4, from the request as it is
SpecTrustedHost ==
    IF fr.proxyIP # Nil /\ Len(r.XFH) > 0 /\ r.XFH[1] # "" THEN r.XFH[1] ELSE r.Host

UpperOf(c) ==
    CASE c = "h" -> "H" [] c = "t" -> "T" [] c = "p" -> "P"
      [] c = "s" -> "S" [] c = "w" -> "W" [] OTHER -> c

\* s equals the lower-case word, letter case aside
IsWord(s, word) ==
    /\ Len(s) = Len(word)
    /\ \A i \in 1..Len(word) : s[i] = word[i] \/ s[i] = UpperOf(word[i])

SpecTrustedProto ==
    LET x == IF Len(r.XFP) = 0 THEN <<>> ELSE r.XFP[1]
        byTLS == IF r.TLS THEN HTTPS ELSE HTTP
    IN  IF fr.proxyIP = Nil THEN byTLS
        ELSE IF IsWord(x, HTTP) \/ IsWord(x, WS) THEN HTTP
        ELSE IF IsWord(x, HTTPS) \/ IsWord(x, WSS) THEN HTTPS
        ELSE byTLS

\* C9: the request BuildRequestForForward returns carries exactly one
\* X-Forwarded-For value, the trusted remote alone when stripForwardedIPs is
\* set and otherwise the residual chain in order followed by the trusted
\* remote, joined with ", "; exactly one X-Forwarded-Host and X-Forwarded-Proto
\* value, the trusted host and protocol; and no X-Real-IP. Nothing else of the
\* incoming values of these headers is carried over.
C9_ForwardHeaders ==
    (ret.kind = "ok" /\ ret.op = "BuildRequestForForward") =>
        /\ ret.v.XFF =
               << CommaSpaced(IF ret.strip THEN <<fr.trustedRemoteAddr>>
                              ELSE Append(fr.trustedForwardedFor, fr.trustedRemoteAddr)) >>
        /\ ret.v.XFH = <<SpecTrustedHost>>
        /\ ret.v.XFP = <<SpecTrustedProto>>
        /\ ret.v.XRI = <<>>

C9_Witness ==
    /\ ret.kind = "ok" /\ ret.op = "BuildRequestForForward" /\ ~ret.strip
    /\ Len(fr.trustedForwardedFor) >= 2 /\ fr.proxyIP # Nil
    /\ Len(r.XRI) > 0 /\ Len(r.XFH) > 0 /\ Len(r.XFP) > 0
    /\ Len(ret.v.XFF) = 1 /\ Len(ret.v.XFF[1]) > Len(r.XFF[1])

\* ------------------------------------------ specification of GetTrustedProto

ForwardedProtos ==
    {<<>>, << <<>> >>,
     <<HTTP>>, << <<"H", "T", "T", "P">> >>, <<WS>>, << <<"W", "s">> >>,
     <<HTTPS>>, << <<"h", "t", "t", "p", "S">> >>, <<WSS>>, << <<"W", "S", "S">> >>,
     << <<"f", "t", "p">> >>, << <<"h", "t", "t", "p", "x">> >>,
     <<WS, HTTPS>>}

InitProto ==
    InitViewOver(ViewRequests(Addr, SeqsUpTo(Addr, MaxViewChain), {"a.example"},
                              {<<>>}, ForwardedProtos, {<<>>}))

CallGetTrustedProtoOnce == ret = NoCall /\ CallGetTrustedProto

NextProto == CallGetTrustedProtoOnce

SpecProto == InitProto /\ [][NextProto]_vars

\* C10: GetTrustedProto returns "http" or "https": without a proxy address,
\* "https" iff the connection has TLS, whatever X-Forwarded-Proto says; with
\* one, "http" for X-Forwarded-Proto equal to "http" or "ws" in any letter case,
\* "https" for "https" or "wss", and the TLS default for anything else or nothing.
C10_TrustedProto ==
    (ret.kind = "ok" /\ ret.op = "GetTrustedProto") =>
        /\ ret.v \in {HTTP, HTTPS}
        /\ fr.proxyIP = Nil => (ret.v = HTTPS <=> r.TLS)
        /\ ret.v = SpecTrustedProto

C10_Witness ==
    /\ ret.kind = "ok" /\ ret.op = "GetTrustedProto"
    /\ fr.proxyIP # Nil /\ ~r.TLS
    /\ r.XFP = << <<"W", "S", "S">> >>
    /\ ret.v = HTTPS

\* ------------------------------------------- specification of the extractor

HeaderLists ==
    {<<>>}
    \cup {<<t>> : t \in SeqsUpTo(TextAtoms, MaxText)}
    \cup {<<t, u>> : t, u \in SeqsUpTo(TextAtoms, MaxShortText)}

InitExtract ==
    /\ args \in {[op |-> "ExtractForwardedForIPs", headers |-> hs] : hs \in HeaderLists}
    /\ ret = NoCall
    /\ h = NoHandler /\ r = NoRequest /\ fr = NoView
    /\ pc = "idle" /\ handled = <<>> /\ first = NoFirst

CallExtractForwardedForIPs ==
    /\ ret = NoCall
    /\ ret' = [kind |-> "ok", ips |-> ExtractForwardedForIPs(args.headers)]
    /\ UNCHANGED <<args, h, r, fr, pc, handled, first>>

NextExtract == CallExtractForwardedForIPs

SpecExtract == InitExtract /\ [][NextExtract]_vars

\* -------------------------------------------------- claims on the extractor

IsSpace(c) == c = Space

RECURSIVE TrimLeft(_)
TrimLeft(s) == IF Len(s) > 0 /\ IsSpace(s[1]) THEN TrimLeft(Tail(s)) ELSE s

RECURSIVE TrimRight(_)
TrimRight(s) ==
    IF Len(s) > 0 /\ IsSpace(s[Len(s)]) THEN TrimRight(SubSeq(s, 1, Len(s) - 1)) ELSE s

Trimmed(s) == TrimRight(TrimLeft(s))

IsAddressText(s) == Len(s) = 1 /\ \E a \in Addr : AddrText[a] = s[1]

AddressOf(s) == CHOOSE a \in Addr : AddrText[a] = s[1]

RECURSIVE ValidTrimmed(_)
ValidTrimmed(toks) ==
    IF Len(toks) = 0 THEN <<>>
    ELSE LET t == Trimmed(toks[1])
         IN  (IF IsAddressText(t) THEN <<AddressOf(t)>> ELSE <<>>)
             \o ValidTrimmed(Tail(toks))

RECURSIVE ExpectedChain(_)
ExpectedChain(headers) ==
    IF Len(headers) = 0 THEN <<>>
    ELSE ValidTrimmed(Split(headers[1])) \o ExpectedChain(Tail(headers))

\* C4: ExtractForwardedForIPs returns exactly the comma-separated tokens that
\* are valid addresses after trimming surrounding whitespace, in header order
\* and then token order; "A, B" yields [A, B].
C4_TrimmedTokensExtracted ==
    (ret.kind = "ok" /\ args.op = "ExtractForwardedForIPs") =>
        ret.ips = ExpectedChain(args.headers)

\* ------------------------------------------- specification of the resolvers

InitResolve ==
    /\ args \in {[op |-> "Resolve", ext |-> e, remote |-> ra, forwarded |-> c] :
                    e \in Extractors, ra \in Addr \cup {Nil}, c \in Chains}
    /\ ret = NoCall
    /\ h = NoHandler /\ r = NoRequest /\ fr = NoView
    /\ pc = "idle" /\ handled = <<>> /\ first = NoFirst

CallCIDRResolve ==
    /\ ret = NoCall
    /\ args.ext.kind = "cidr"
    /\ ret' = CIDRResolve(args.ext.whitelist, args.remote, args.forwarded)
    /\ UNCHANGED <<args, h, r, fr, pc, handled, first>>

CallOffsetResolve ==
    /\ ret = NoCall
    /\ args.ext.kind = "offset"
    /\ ret' = OffsetResolve(args.ext.o, args.remote, args.forwarded)
    /\ UNCHANGED <<args, h, r, fr, pc, handled, first>>

NextResolve == CallCIDRResolve \/ CallOffsetResolve

SpecResolve == InitResolve /\ [][NextResolve]_vars

\* ------------------------------------------------- claims on the resolvers

Resolved == ret.kind # "none" /\ args.op = "Resolve"

\* S = C followed by R
FullChain == Append(args.forwarded, args.remote)

InWhitelist(a) == \E n \in args.ext.whitelist : a \in n

\* position in S of the rightmost element not in W, or 1 when all are in W
WalkStop ==
    LET S == FullChain
        out == {j \in 1..Len(S) : ~InWhitelist(S[j])}
    IN  IF out = {} THEN 1 ELSE CHOOSE j \in out : \A k \in out : k <= j

NoRepeat(S) == \A i, j \in 1..Len(S) : S[i] = S[j] => i = j

\* C1: CIDRWhitelist.Resolve never errs and returns the partition of the
\* right-to-left walk over S = C followed by R: the trusted remote is the
\* rightmost element of S not in W (the leftmost when all are in W), the proxy
\* is the element right of it (nil exactly when the trusted remote is R's
\* position), the residual chain is what lies left of it, in order; with R not
\* in W the result is (nil, R, C).
C1_CIDRWalk ==
    (Resolved /\ args.ext.kind = "cidr") =>
        LET S == FullChain
            i == WalkStop
        IN  /\ ret.kind = "ok"
            /\ ret.remote = S[i]
            /\ ret.proxy = (IF i = Len(S) THEN Nil ELSE S[i + 1])
            /\ (ret.proxy = Nil) <=> (i = Len(S))
            /\ ret.forwarded = SubSeq(args.forwarded, 1, i - 1)
            /\ ~InWhitelist(args.remote) =>
                   ret = Ok(Nil, args.remote, args.forwarded)

C1_Witness ==
    /\ Resolved /\ args.ext.kind = "cidr"
    /\ ret.kind = "ok" /\ ret.proxy # Nil /\ ret.proxy # args.remote
    /\ Len(ret.forwarded) > 0
    /\ ~InWhitelist(ret.remote)

\* C2: OffsetIPExtractor.Resolve returns the configuration error whenever
\* size = len(C) + 1 < N + 2, the case size = N + 1 included, and nothing else
\* abnormal happens.
C2_ShortChainIsConfigError ==
    (Resolved /\ args.ext.kind = "offset"
        /\ Len(args.forwarded) + 1 < args.ext.o + 2) => ret = ErrMisconfigured

\* C3 (as claimed): no element of the residual chain of a successful
\* resolution equals, by value, the proxy address or the trusted remote.
C3_ResidualDisjointByValue ==
    (Resolved /\ ret.kind = "ok") =>
        \A k \in 1..Len(ret.forwarded) :
            ret.forwarded[k] # ret.proxy /\ ret.forwarded[k] # ret.remote

\* C3 (amended): in a successful resolution the residual chain, the trusted
\* remote and the proxy (when present) are consecutive and start S, so the
\* residual chain holds only positions of S left of both; when S repeats no
\* address, no residual element equals the proxy or the trusted remote.
C3_ResidualDisjointByPosition ==
    (Resolved /\ ret.kind = "ok") =>
        LET S    == FullChain
            used == ret.forwarded \o <<ret.remote>>
                    \o (IF ret.proxy = Nil THEN <<>> ELSE <<ret.proxy>>)
        IN  /\ Len(used) <= Len(S)
            /\ used = SubSeq(S, 1, Len(used))
            /\ NoRepeat(S) =>
                   \A k \in 1..Len(ret.forwarded) :
                       ret.forwarded[k] # ret.proxy /\ ret.forwarded[k] # ret.remote

C3_Witness ==
    /\ Resolved /\ ret.kind = "ok"
    /\ Len(ret.forwarded) > 0 /\ ret.proxy # Nil
    /\ ~NoRepeat(FullChain)
    /\ \E k \in 1..Len(ret.forwarded) : ret.forwarded[k] = ret.remote

\* C8: with size = len(C) + 1 >= N + 2, OffsetIPExtractor.Resolve succeeds with
\* proxy = full[size-N-1], trusted remote = full[size-N-2] and the residual
\* chain = the elements of full before index size-N-2 (0-indexed), in order.
C8_OffsetPartition ==
    (Resolved /\ args.ext.kind = "offset"
        /\ Len(args.forwarded) + 1 >= args.ext.o + 2) =>
        LET full == FullChain
            size == Len(full)
            N    == args.ext.o
        IN  /\ ret.kind = "ok"
            /\ ret.proxy = full[(size - N - 1) + 1]
            /\ ret.remote = full[(size - N - 2) + 1]
            /\ ret.forwarded = [k \in 1..(size - N - 2) |-> full[k]]

C8_Witness ==
    /\ Resolved /\ args.ext.kind = "offset" /\ args.ext.o > 0
    /\ ret.kind = "ok" /\ Len(ret.forwarded) > 0
    /\ ret.proxy # args.remote

====
